---- MODULE Spec2Model ----
(***************************************************************************)
(* Model of src/adapter.js: the TCP connection pool (TCPConnectionPool)    *)
(* and the command executor (HTTPToTCPAdapter.sendTCPCommand).             *)
(*                                                                         *)
(* Scheduling: Node's single-threaded event loop.  One action is one       *)
(* macrotask (an HTTP request entering sendTCPCommand, a socket event, a   *)
(* timer) together with the promise continuations (microtasks) it          *)
(* releases: no timer and no socket event runs between a `resolve` and the *)
(* continuation of the `await` it wakes.                                   *)
(*                                                                         *)
(* Sockets are net.Socket objects: destroy() sets `destroyed` at once,     *)
(* and the 'close' event is emitted by a later macrotask (state            *)
(* "destroyed" = flag set, 'close' not yet emitted; "closed" = emitted).   *)
(*                                                                         *)
(* Timers carry no duration: an armed timer fires in any later macrotask   *)
(* unless it is cleared first.                                             *)
(***************************************************************************)
EXTENDS Integers, Sequences, FiniteSets

\* ---- bounds of the model ------------------------------------------------
MaxCmds == 2
MaxBuf == 2
MaxText == 4
TextCmds == 1
MaxChunk == 2
NumKeys == 2

Cmds == 1..MaxCmds
Keys == 1..NumKeys
NoSock == 0

\* ---- text ---------------------------------------------------------------
\* Characters of the inbound stream: a text character and the two whitespace
\* characters the delimiters are made of.
Chars == {"x", "\r", "\n"}
Whitespace == {" ", "\t", "\r", "\n"}

RECURSIVE SeqsUpTo(_)
SeqsUpTo(n) ==
  IF n = 0 THEN {<<>>}
  ELSE LET S == SeqsUpTo(n - 1)
       IN S \cup {Append(s, ch) : s \in {t \in S : Len(t) = n - 1}, ch \in Chars}

Chunks == SeqsUpTo(MaxChunk) \ {<<>>}

\* The command text of a request (its content plays no part in the core).
Payload == <<"x">>

\* options.delimiter as given by the caller: absent or "" (both <<>>), or
\* "\r\n".
DelimOptions == {<<>>, <<"\r", "\n">>}

\* String.prototype.includes
Includes(buf, d) ==
  \E i \in 0..(Len(buf) - Len(d)) : SubSeq(buf, i + 1, i + Len(d)) = d

\* String.prototype.trim
RECURSIVE TrimLeft(_)
TrimLeft(s) ==
  IF s # <<>> /\ Head(s) \in Whitespace THEN TrimLeft(Tail(s)) ELSE s

RECURSIVE TrimRight(_)
TrimRight(s) ==
  IF s # <<>> /\ s[Len(s)] \in Whitespace
  THEN TrimRight(SubSeq(s, 1, Len(s) - 1)) ELSE s

Trim(s) == TrimRight(TrimLeft(s))

\* Inbound chunks are byte sequences.  The bytes of Chars are ASCII: each is
\* one character.  "C3" "A9" is the UTF-8 encoding of the character "é".
TextBytes == Chars \cup {"C3", "A9"}

RECURSIVE BytesUpTo(_)
BytesUpTo(n) ==
  IF n = 0 THEN {<<>>}
  ELSE LET S == BytesUpTo(n - 1)
       IN S \cup {Append(s, b) : s \in {t \in S : Len(t) = n - 1}, b \in TextBytes}

TextChunks == BytesUpTo(MaxChunk) \ {<<>>}

\* data.toString(encoding) with the default encoding 'utf8', applied to one
\* chunk: an ASCII byte is its character, "C3" "A9" is "é", and a byte of an
\* incomplete or invalid sequence becomes U+FFFD.
RECURSIVE Decode(_)
Decode(bytes) ==
  IF bytes = <<>> THEN <<>>
  ELSE IF Head(bytes) \in Chars THEN <<Head(bytes)>> \o Decode(Tail(bytes))
  ELSE IF Head(bytes) = "C3" /\ Len(bytes) >= 2 /\ bytes[2] = "A9"
       THEN <<"é">> \o Decode(Tail(Tail(bytes)))
  ELSE <<"FFFD">> \o Decode(Tail(bytes))

\* options.delimiter of the text specification: also the one character "é".
TextDelimOptions == DelimOptions \cup {<<"é">>}

\* const delimiter = options.delimiter || '\n'
EffDelimiter(opt) == IF opt = <<>> THEN <<"\n">> ELSE opt

\* ---- state --------------------------------------------------------------
VARIABLES
  connections,   \* TCPConnectionPool.connections: key -> socket id (NoSock: no entry)
  sock,          \* every socket created so far, by id
  cmd            \* every sendTCPCommand invocation, by id

vars == <<connections, sock, cmd>>

IdleCmd ==
  [pc |-> "idle", key |-> 1, optDelim |-> <<>>, delimiter |-> <<>>,
   timer |-> "none", grace |-> "none", attempt |-> NoSock, socket |-> NoSock,
   responseData |-> <<>>, written |-> <<>>, outcome |-> "pending",
   result |-> <<>>, settles |-> 0, late |-> FALSE]

Init ==
  /\ connections = [k \in Keys |-> NoSock]
  /\ sock = <<>>
  /\ cmd = [c \in Cmds |-> IdleCmd]

Sockets == 1..Len(sock)
IsDestroyed(s) == sock[s].state \in {"destroyed", "closed"}

\* ---- the command's promise ----------------------------------------------
\* A completion callback with no one-shot latch: every call overwrites.
SettleUnlatched(r, out, res) ==
  [r EXCEPT !.outcome = out, !.result = res, !.settles = r.settles + 1]

\* resolve/reject of the promise of sendTCPCommand: the first call settles
\* it, later calls change nothing (settles counts the calls).
Settle(r, out, res) ==
  IF r.outcome = "pending"
  THEN [r EXCEPT !.outcome = out, !.result = res, !.settles = r.settles + 1]
  ELSE [r EXCEPT !.settles = r.settles + 1]

\* clearTimeout(timeoutId)
ClearTimer(r) == IF r.timer = "armed" THEN [r EXCEPT !.timer = "cleared"] ELSE r

\* ---- TCPConnectionPool.getConnection ------------------------------------
\* getConnection with the test inverted (if (conn.destroyed) return conn).
ReusableInverted(k) == connections[k] # NoSock /\ IsDestroyed(connections[k])

\* if (this.connections.has(key)) { conn = get(key); if (!conn.destroyed) return conn; }
Reusable(k) == connections[k] # NoSock /\ ~IsDestroyed(connections[k])

\* getConnection without its socket.on('error', reject).
NewSocketNoErrorListener(k, c) ==
  [key |-> k, state |-> "connecting", owner |-> c, cause |-> "none",
   poolErrL |-> FALSE, dataL |-> {}, errL |-> {}]

\* net.createConnection: a new socket, connecting, carrying the pool's
\* 'error' listener (reject; poolErrL, never removed) and 'close' listener;
\* owner is the command whose getConnection promise it settles.  cause
\* records what destroyed the socket: "error", "timeout", "peer" or
\* "closeAll".  dataL and errL are the commands whose onData and onError are
\* attached.
NewSocket(k, c) ==
  [key |-> k, state |-> "connecting", owner |-> c, cause |-> "none",
   poolErrL |-> TRUE, dataL |-> {}, errL |-> {}]

\* ---- sendTCPCommand ------------------------------------------------------
\* The entry of sendTCPCommand without its setTimeout.
EnterNoTimer(r, k, opt) ==
  [r EXCEPT !.key = k, !.optDelim = opt, !.delimiter = EffDelimiter(opt)]

\* The entry of sendTCPCommand up to its await: option defaults, the timeout
\* timer armed.
Enter(r, k, opt) ==
  [r EXCEPT !.key = k, !.optDelim = opt, !.delimiter = EffDelimiter(opt),
            !.timer = "armed"]

\* The code after `socket = await getConnection(...)`: the socket variable
\* assigned, onData and onError attached, command + delimiter written, and the
\* grace timer armed when the delimiter is empty.  It runs whether or not the
\* promise has been settled meanwhile.
Continue(r, s) ==
  [r EXCEPT !.pc = "attached", !.socket = s,
            !.written = Payload \o r.delimiter,
            !.grace = IF r.delimiter = <<>> THEN "armed" ELSE "none"]

Attach(so, c) == [so EXCEPT !.dataL = @ \cup {c}, !.errL = @ \cup {c}]

\* Commands are numbered in the order they are issued, and keys in the order
\* they are first used.
NextToIssue(c) == cmd[c].pc = "idle" /\ \A d \in Cmds : d < c => cmd[d].pc # "idle"
UsedKeys == {cmd[c].key : c \in {d \in Cmds : cmd[d].pc # "idle"}}
NextKey(k) == \A j \in Keys : j < k => j \in UsedKeys

\* sendTCPCommand when the pool holds a live connection for the key:
\* getConnection returns it and the continuation runs in the same macrotask.
StartCached(c, k, opt) ==
  /\ NextToIssue(c)
  /\ NextKey(k)
  /\ Reusable(k)
  /\ LET s == connections[k]
     IN /\ cmd' = [cmd EXCEPT ![c] =
                     Continue([Enter(cmd[c], k, opt) EXCEPT !.attempt = s], s)]
        /\ sock' = [sock EXCEPT ![s] = Attach(sock[s], c)]
  /\ UNCHANGED connections

\* sendTCPCommand when the pool holds no live connection for the key: a
\* destroyed entry is deleted, a new socket is created, the command awaits.
StartConnect(c, k, opt) ==
  /\ NextToIssue(c)
  /\ NextKey(k)
  /\ ~Reusable(k)
  /\ connections' = [connections EXCEPT ![k] = NoSock]
  /\ sock' = Append(sock, NewSocket(k, c))
  /\ cmd' = [cmd EXCEPT ![c] =
               [Enter(cmd[c], k, opt) EXCEPT !.pc = "awaiting",
                                             !.attempt = Len(sock) + 1]]

\* The connect callback of net.createConnection: the socket is stored under
\* its key (replacing whatever is there) and the promise resolved; the
\* owner's continuation follows.
Connected(s) ==
  /\ s \in Sockets
  /\ sock[s].state = "connecting"
  /\ LET c == sock[s].owner
     IN /\ connections' = [connections EXCEPT ![sock[s].key] = s]
        /\ sock' = [sock EXCEPT ![s] = Attach([sock[s] EXCEPT !.state = "open"], c)]
        /\ cmd' = [cmd EXCEPT ![c] = Continue(cmd[c], s)]

\* The connect attempt errors: the socket is destroyed, the pool's 'error'
\* listener rejects getConnection, and the catch block of sendTCPCommand
\* clears the timer and rejects.
ConnectError(s) ==
  /\ s \in Sockets
  /\ sock[s].state = "connecting"
  /\ LET c == sock[s].owner
     IN /\ sock' = [sock EXCEPT ![s].state = "destroyed", ![s].cause = "error"]
        /\ cmd' = [cmd EXCEPT ![c] =
                     Settle([ClearTimer(cmd[c]) EXCEPT !.pc = "failed"],
                            "connect_failure", <<>>)]
  /\ UNCHANGED connections

\* setTimeout(() => { if (socket && !socket.destroyed) socket.destroy(); reject(...) })
TimeoutDestroys(r) == r.socket # NoSock /\ ~IsDestroyed(r.socket)

Timeout(c) ==
  /\ cmd[c].timer = "armed"
  /\ cmd' = [cmd EXCEPT ![c] = Settle([cmd[c] EXCEPT !.timer = "fired"], "timeout", <<>>)]
  /\ sock' = IF TimeoutDestroys(cmd[c])
             THEN [sock EXCEPT ![cmd[c].socket].state = "destroyed",
                               ![cmd[c].socket].cause = "timeout"]
             ELSE sock
  /\ UNCHANGED connections

\* The completion test made on the chunk alone (data.toString().includes).
CompletesPerChunk(r, chunk) ==
  r.delimiter # <<>> /\ Includes(Decode(chunk), r.delimiter)

\* onData of one command, and whether it completes on this chunk.
Completes(r, chunk) ==
  r.delimiter # <<>> /\ Includes(r.responseData \o Decode(chunk), r.delimiter)

OnData(r, chunk) ==
  LET buf == r.responseData \o Decode(chunk)
      r1 == [r EXCEPT !.responseData = buf, !.late = @ \/ r.outcome # "pending"]
  IN IF Completes(r, chunk) THEN Settle(ClearTimer(r1), "success", Trim(buf)) ELSE r1

\* A 'data' event: every onData attached at the time of the emit runs; those
\* that complete detach their onData and onError.
DataUpTo(s, chunk, limit) ==
  /\ s \in Sockets
  /\ sock[s].state = "open"
  /\ sock[s].dataL # {}
  /\ \A c \in sock[s].dataL : Len(cmd[c].responseData) + Len(chunk) <= limit
  /\ LET L == sock[s].dataL
         done == {c \in L : Completes(cmd[c], chunk)}
     IN /\ cmd' = [c \in Cmds |-> IF c \in L THEN OnData(cmd[c], chunk) ELSE cmd[c]]
        /\ sock' = [sock EXCEPT ![s].dataL = @ \ done, ![s].errL = @ \ done]
  /\ UNCHANGED connections

Data(s, chunk) == DataUpTo(s, chunk, MaxBuf)

\* onError without its reject.
OnErrorSilent(r) == [ClearTimer(r) EXCEPT !.late = @ \/ r.outcome # "pending"]

\* onError of one command: timer cleared, onData detached (by SocketError),
\* promise rejected.
OnError(r) ==
  Settle([ClearTimer(r) EXCEPT !.late = @ \/ r.outcome # "pending"],
         "transport_error", <<>>)

\* An 'error' event on a connected socket: the socket is destroyed, the
\* pool's listener rejects an already settled promise (no effect), and every
\* onError attached runs.  A socket emits 'error' at most once.
SocketError(s) ==
  /\ s \in Sockets
  /\ sock[s].state = "open"
  /\ LET L == sock[s].errL
     IN /\ cmd' = [c \in Cmds |-> IF c \in L THEN OnError(cmd[c]) ELSE cmd[c]]
        /\ sock' = [sock EXCEPT ![s].state = "destroyed", ![s].cause = "error",
                                ![s].dataL = @ \ L]
  /\ UNCHANGED connections

\* The peer closes the connection without error: the socket ends and is
\* destroyed; no listener of a command runs.
PeerClose(s) ==
  /\ s \in Sockets
  /\ sock[s].state = "open"
  /\ sock' = [sock EXCEPT ![s].state = "destroyed", ![s].cause = "peer"]
  /\ UNCHANGED <<connections, cmd>>

\* The 'close' listener with this.connections.clear() in place of delete(key).
CloseEventClearsAll(s) ==
  /\ s \in Sockets
  /\ sock[s].state = "destroyed"
  /\ sock' = [sock EXCEPT ![s].state = "closed"]
  /\ connections' = [k \in Keys |-> NoSock]
  /\ UNCHANGED cmd

\* socket.on('close', () => this.connections.delete(key))
CloseEvent(s) ==
  /\ s \in Sockets
  /\ sock[s].state = "destroyed"
  /\ sock' = [sock EXCEPT ![s].state = "closed"]
  /\ connections' = [connections EXCEPT ![sock[s].key] = NoSock]
  /\ UNCHANGED cmd

\* The grace timer of the no-delimiter mode.  It is armed only by Continue
\* with an empty effective delimiter, which EffDelimiter never yields
\* (GraceNeverArmed below), so it is not a disjunct of Next.
GraceFire(c) ==
  /\ cmd[c].grace = "armed"
  /\ cmd' = [cmd EXCEPT ![c] =
               Settle([ClearTimer(cmd[c]) EXCEPT !.grace = "fired"],
                      "success", cmd[c].responseData)]
  /\ sock' = [sock EXCEPT ![cmd[c].socket].dataL = @ \ {c},
                          ![cmd[c].socket].errL = @ \ {c}]
  /\ UNCHANGED connections

\* ---- TCPConnectionPool.closeAll -----------------------------------------
\* for (const [key, socket] of this.connections) if (!socket.destroyed) socket.destroy()
Stored(conn, s) == \E k \in Keys : conn[k] = s

\* closeAll with the test inverted (if (socket.destroyed) socket.destroy()):
\* destroy() on a destroyed socket does nothing.
DestroyStoredInverted(conn, sk) ==
  [s \in DOMAIN sk |->
     IF Stored(conn, s) /\ sk[s].state \in {"destroyed", "closed"}
     THEN sk[s] ELSE sk[s]]

DestroyStored(conn, sk) ==
  [s \in DOMAIN sk |->
     IF Stored(conn, s) /\ sk[s].state \notin {"destroyed", "closed"}
     THEN [sk[s] EXCEPT !.state = "destroyed", !.cause = "closeAll"] ELSE sk[s]]

\* this.connections.clear()
Cleared(conn) == [k \in Keys |-> NoSock]

CloseAll ==
  /\ sock' = DestroyStored(connections, sock)
  /\ connections' = Cleared(connections)
  /\ UNCHANGED cmd

\* ---- specification -------------------------------------------------------
Next ==
  \/ \E c \in Cmds, k \in Keys, opt \in DelimOptions : StartCached(c, k, opt)
  \/ \E c \in Cmds, k \in Keys, opt \in DelimOptions : StartConnect(c, k, opt)
  \/ \E s \in Sockets : Connected(s)
  \/ \E s \in Sockets : ConnectError(s)
  \/ \E c \in Cmds : Timeout(c)
  \/ \E s \in Sockets, chunk \in Chunks : Data(s, chunk)
  \/ \E s \in Sockets : SocketError(s)
  \/ \E s \in Sockets : PeerClose(s)
  \/ \E s \in Sockets : CloseEvent(s)
  \/ CloseAll

Spec == Init /\ [][Next]_vars

\* The text of the replies: the first TextCmds commands, each on a
\* connection of its own, with inbound streams of up to MaxText bytes that
\* may hold a two-byte character.
NextText ==
  \/ \E c \in 1..TextCmds, k \in Keys, opt \in TextDelimOptions : StartConnect(c, k, opt)
  \/ \E s \in Sockets : Connected(s)
  \/ \E s \in Sockets : ConnectError(s)
  \/ \E c \in Cmds : Timeout(c)
  \/ \E s \in Sockets, chunk \in TextChunks : DataUpTo(s, chunk, MaxText)
  \/ \E s \in Sockets : SocketError(s)
  \/ \E s \in Sockets : PeerClose(s)
  \/ \E s \in Sockets : CloseEvent(s)
  \/ CloseAll

SpecText == Init /\ [][NextText]_vars

\* An armed timer that is not cleared fires: setTimeout callbacks are run by
\* the event loop once their delay has elapsed.
SpecLive == Spec /\ \A c \in Cmds : WF_vars(Timeout(c))

TypeOK ==
  /\ connections \in [Keys -> Sockets \cup {NoSock}]
  /\ \A s \in Sockets :
       /\ sock[s].state \in {"connecting", "open", "destroyed", "closed"}
       /\ sock[s].dataL \subseteq Cmds /\ sock[s].errL \subseteq Cmds
  /\ \A c \in Cmds :
       /\ cmd[c].pc \in {"idle", "awaiting", "attached", "failed"}
       /\ cmd[c].timer \in {"none", "armed", "fired", "cleared"}
       /\ cmd[c].outcome \in
            {"pending", "success", "timeout", "transport_error", "connect_failure"}

\* The grace timer is never armed: with `options.delimiter || '\n'` the
\* effective delimiter is never empty.
GraceNeverArmed == \A c \in Cmds : cmd[c].grace = "none" /\ ~ENABLED GraceFire(c)

\* ---- claims --------------------------------------------------------------
Entry(k) == connections[k]
Listening(c) == \E s \in Sockets : c \in sock[s].dataL \cup sock[s].errL
Settled(c) == cmd[c].outcome # "pending"

\* C1: a command never settles twice and never moves from one terminal
\* outcome to another: once its outcome is success, timeout, transport_error
\* or connect_failure, no later data chunk, socket error, connect result or
\* timer changes the outcome or the result.
C1_SettlesOnce ==
  [][\A c \in Cmds :
       Settled(c) => /\ cmd'[c].outcome = cmd[c].outcome
                     /\ cmd'[c].result = cmd[c].result]_vars

\* C1 witness: a command whose resolve/reject has been called a second time
\* (its timer fired while connecting, and the connect then failed or the
\* reply arrived), with the first outcome kept.
C1_Witness ==
  \E c \in Cmds : cmd[c].settles >= 2 /\ cmd[c].outcome = "timeout"

\* C2 (as claimed): whenever a command has failed with Timeout, the socket it
\* was using or establishing is destroyed, and once that socket's 'close' has
\* been emitted the registry does not hold it; also when the timer fired
\* while the connection was still being established.
C2_TimeoutDestroysConnection ==
  \A c \in Cmds :
    (cmd[c].outcome = "timeout" /\ cmd[c].attempt # NoSock) =>
      /\ IsDestroyed(cmd[c].attempt)
      /\ (sock[cmd[c].attempt].state = "closed" => Entry(cmd[c].key) # cmd[c].attempt)

\* C3 (as claimed): a command issued with delimiter "" runs in grace-period
\* mode: once its payload is written a grace completion is scheduled, and it
\* does not end in Timeout while nothing has been received.
C3_EmptyDelimiterGraceMode ==
  \A c \in Cmds :
    (cmd[c].optDelim = <<>> /\ cmd[c].pc = "attached") =>
      /\ cmd[c].grace # "none"
      /\ ~(cmd[c].outcome = "timeout" /\ cmd[c].responseData = <<>>)

C5_OneAttemptPerKey ==
  /\ \A s1, s2 \in Sockets :
       (/\ s1 # s2 /\ sock[s1].key = sock[s2].key
        /\ sock[s1].state \in {"connecting", "open"})
       => sock[s2].state \notin {"connecting", "open"}
  /\ \A s \in Sockets : sock[s].state = "open" => Entry(sock[s].key) = s

\* C6 (as claimed): every registry entry is an open connection: the registry
\* never maps a key to a destroyed or closed socket.
C6_RegistryEntriesOpen ==
  \A k \in Keys : Entry(k) # NoSock => sock[Entry(k)].state = "open"

\* C7 (as claimed): once a command has produced its result, none of its
\* listeners is attached to a socket and none of its timers is pending.
C7_ReleasedOnExit ==
  \A c \in Cmds :
    Settled(c) => /\ ~Listening(c)
                  /\ cmd[c].timer # "armed"
                  /\ cmd[c].grace # "armed"

\* C8: an 'error' event on a connected socket fails every command in flight
\* on it with TransportError, and a command that has failed with
\* TransportError never has a listener invoked afterwards.
C8_ErrorFailsOnce ==
  [][/\ \A s \in Sockets, c \in Cmds :
          (/\ sock[s].state = "open" /\ sock'[s].cause = "error"
           /\ cmd[c].socket = s /\ ~Settled(c))
          => cmd'[c].outcome = "transport_error"
     /\ \A c \in Cmds :
          cmd'[c].outcome = "transport_error" =>
            /\ ~cmd'[c].late
            /\ cmd[c].outcome = "transport_error" =>
                 cmd'[c].responseData = cmd[c].responseData]_vars

\* C8 witness: a command failed with TransportError by the error of its
\* socket, whose later 'close' event has been emitted.
C8_Witness ==
  \E c \in Cmds :
    /\ cmd[c].outcome = "transport_error" /\ cmd[c].settles = 1
    /\ cmd[c].socket # NoSock
    /\ sock[cmd[c].socket].state = "closed"

\* C9: closeAll destroys every socket stored in the registry, skipping those
\* already destroyed, and leaves the registry empty; run again on the state
\* it leaves, it changes nothing.
C9_CloseAllEmpties ==
  [][CloseAll =>
       /\ \A k \in Keys : connections'[k] = NoSock
       /\ \A s \in Sockets :
            /\ Stored(connections, s) => sock'[s].state \in {"destroyed", "closed"}
            /\ (IsDestroyed(s) \/ ~Stored(connections, s)) => sock'[s] = sock[s]
       /\ DestroyStored(connections', sock') = sock'
       /\ Cleared(connections') = connections']_vars

\* C9 witness: closeAll has destroyed a stored socket while another socket
\* had been destroyed before, and the registry is empty.
C9_Witness ==
  /\ \A k \in Keys : Entry(k) = NoSock
  /\ \E s1, s2 \in Sockets :
       /\ sock[s1].cause = "closeAll" /\ sock[s1].state = "destroyed"
       /\ sock[s2].cause \in {"peer", "timeout"}

\* C10 (as claimed): the result of a command that succeeded never contains
\* its delimiter.
C10_ResultWithoutDelimiter ==
  \A c \in Cmds :
    cmd[c].outcome = "success" => ~Includes(cmd[c].result, cmd[c].delimiter)

\* The two replies of the test server: "STATUS_OK\n" under the default
\* delimiter and "HELLO_RESPONSE\r\n" under "\r\n" (the text shortened to
\* "x") give exactly the text.
RepliesOfTestServer ==
  \A c \in Cmds :
    (cmd[c].outcome = "success" /\ cmd[c].responseData = <<"x">> \o cmd[c].delimiter)
      => cmd[c].result = <<"x">>

\* C11 (as claimed): the gateway never has two commands in flight on one
\* connection: no socket carries the listeners of two commands that are both
\* still pending.
C11_OneCommandInFlightPerConnection ==
  \A s \in Sockets : \A c1, c2 \in sock[s].dataL :
    (c1 # c2) => (Settled(c1) \/ Settled(c2))

\* C12: every command that has been issued eventually produces a result,
\* whatever the peer does, given that armed timers fire.
C12_EventuallySettles ==
  \A c \in Cmds : (cmd[c].pc # "idle") ~> Settled(c)

\* C12 witness: a command ended by its timer after the peer sent data without
\* the delimiter and closed the connection without error.
C12_Witness ==
  \E c \in Cmds :
    /\ cmd[c].outcome = "timeout" /\ cmd[c].pc = "attached"
    /\ cmd[c].responseData # <<>>
    /\ sock[cmd[c].socket].cause = "peer"

\* A step in which the connect attempt of socket s errors.
ConnectFails(s) == sock[s].state = "connecting" /\ sock'[s].cause = "error"

\* C13 (as claimed): when a connect attempt errors before the handshake
\* completes, the command that requested it fails with the connect failure,
\* with its timer cancelled and nothing written, and the registry holds no
\* entry for the failed socket.
C13_ConnectFailureFailsCommand ==
  [][\A s \in Sockets :
       ConnectFails(s) =>
         LET c == sock[s].owner
         IN /\ cmd'[c].outcome = "connect_failure"
            /\ cmd'[c].timer = "cleared"
            /\ cmd'[c].written = <<>>
            /\ ~Stored(connections', s)]_vars

\* The same for a command that is still pending when its connect attempt
\* errors (its timer has not fired).
C13_WhilePending ==
  [][\A s \in Sockets :
       (ConnectFails(s) /\ ~Settled(sock[s].owner)) =>
         LET c == sock[s].owner
         IN /\ cmd'[c].outcome = "connect_failure"
            /\ cmd'[c].timer = "cleared"
            /\ cmd'[c].written = <<>>
            /\ ~Stored(connections', s)]_vars

\* What a step leaves alone when it concerns key a only: the registry entry
\* of every other key, the sockets of every other key (state and listeners),
\* and the commands issued on every other key (timers included).
KeepsOtherKeys(a) ==
  \A b \in Keys \ {a} :
    /\ connections'[b] = connections[b]
    /\ \A s \in Sockets : sock[s].key = b => sock'[s] = sock[s]
    /\ \A c \in Cmds : (cmd[c].pc # "idle" /\ cmd[c].key = b) => cmd'[c] = cmd[c]

\* C14: every step other than closeAll (an acquire, a connect result, a data
\* chunk, a timeout, an error, a close) concerns one key and leaves the
\* registry entries, sockets, listeners, timers and commands of every other
\* key unchanged.
C14_KeysIndependent ==
  [][CloseAll \/ \E a \in Keys : KeepsOtherKeys(a)]_vars

\* C14 witness: the socket of key 1 has been closed and evicted while a
\* command on key 2 is still pending on its registered, open connection.
C14_Witness ==
  /\ Entry(2) # NoSock /\ sock[Entry(2)].state = "open"
  /\ \E s \in Sockets : sock[s].key = 1 /\ sock[s].state = "closed"
  /\ \E c \in Cmds :
       /\ cmd[c].key = 2 /\ cmd[c].pc = "attached" /\ ~Settled(c)
       /\ cmd[c].timer = "armed" /\ c \in sock[Entry(2)].dataL

\* The number of 'error' listeners attached to socket s.
ErrorListeners(s) ==
  (IF sock[s].poolErrL THEN 1 ELSE 0) + Cardinality(sock[s].errL)

\* C15: every socket that can still emit an error (connecting or connected)
\* has at least one 'error' listener attached, so no socket error is
\* unhandled.
C15_ErrorAlwaysHandled ==
  \A s \in Sockets :
    sock[s].state \in {"connecting", "open"} => ErrorListeners(s) >= 1

\* C15 witness: a pooled, idle, connected socket whose command has completed
\* and detached its listeners, and a second socket still connecting.
C15_Witness ==
  \E s1, s2 \in Sockets :
    /\ sock[s1].state = "open" /\ sock[s1].errL = {}
    /\ cmd[sock[s1].owner].outcome = "success"
    /\ sock[s2].state = "connecting"

SplitCharacterNeverCompletes ==
  \E c \in Cmds :
    /\ cmd[c].delimiter = <<"é">> /\ ~Settled(c)
    /\ cmd[c].responseData = <<"x", "FFFD", "FFFD">>

\* ---- commands issued one at a time on a key -------------------------------
\* The route handlers await sendTCPCommand; a caller that waits for the
\* response before its next request on the same host:port issues a command
\* only when every earlier command on that key has produced its result.
OneAtATime(k) ==
  \A d \in Cmds : (cmd[d].pc # "idle" /\ cmd[d].key = k) => Settled(d)

NextSerial ==
  \/ \E c \in Cmds, k \in Keys, opt \in DelimOptions :
       OneAtATime(k) /\ StartCached(c, k, opt)
  \/ \E c \in Cmds, k \in Keys, opt \in DelimOptions :
       OneAtATime(k) /\ StartConnect(c, k, opt)
  \/ \E s \in Sockets : Connected(s)
  \/ \E s \in Sockets : ConnectError(s)
  \/ \E c \in Cmds : Timeout(c)
  \/ \E s \in Sockets, chunk \in Chunks : Data(s, chunk)
  \/ \E s \in Sockets : SocketError(s)
  \/ \E s \in Sockets : PeerClose(s)
  \/ \E s \in Sockets : CloseEvent(s)
  \/ CloseAll

SpecSerial == Init /\ [][NextSerial]_vars

\* C17: with commands on a key issued one at a time, the step in which a
\* command succeeds by delimiter match leaves its timer cleared and its
\* connection open and registered under the command's key, so that the next
\* acquire for the key reuses it; and the executor's timer destroys a
\* connection only for a command that has not completed.
C17_SuccessKeepsConnectionRegistered ==
  [][\A c \in Cmds :
       /\ (~Settled(c) /\ cmd'[c].outcome = "success") =>
            /\ cmd'[c].timer = "cleared"
            /\ sock'[cmd[c].socket].state = "open"
            /\ connections'[cmd[c].key] = cmd[c].socket
       /\ (cmd[c].timer = "armed" /\ cmd'[c].timer = "fired") => ~Settled(c)
       /\ (cmd[c].outcome = "success") => cmd'[c].timer = "cleared"]_vars

\* The parts of C17 that hold: a timer fires only for a pending command,
\* never after a success, and a success leaves the connection open.
C17_TimerOnlyWhilePending ==
  [][\A c \in Cmds :
       /\ (~Settled(c) /\ cmd'[c].outcome = "success") =>
            /\ cmd'[c].timer = "cleared"
            /\ sock'[cmd[c].socket].state = "open"
       /\ (cmd[c].timer = "armed" /\ cmd'[c].timer = "fired") => ~Settled(c)
       /\ (cmd[c].outcome = "success") => cmd'[c].timer = "cleared"]_vars

\* How C17 fails with no socket ever destroyed: the first command timed out
\* while its attempt was connecting, the second command opened its own
\* attempt and succeeded on it, and the first attempt, connecting last, took
\* the registry entry.
C17_LateConnectTakesEntry ==
  \E c1, c2 \in Cmds :
    /\ cmd[c1].outcome = "timeout" /\ cmd[c2].outcome = "success"
    /\ cmd[c1].key = cmd[c2].key
    /\ cmd[c1].attempt # cmd[c2].socket
    /\ sock[cmd[c2].socket].state = "open"
    /\ connections[cmd[c2].key] = cmd[c1].attempt
    /\ \A s \in Sockets : sock[s].cause = "none"

\* C18: the 'close' event of a connection S never removes a registry entry
\* that maps S's key to a different connection that is still open.
ClosesNow(s) == sock[s].state = "destroyed" /\ sock'[s].state = "closed"

C18_CloseEvictsOnlyOwnEntry ==
  [][\A s \in Sockets :
       ClosesNow(s) =>
         \A k \in Keys :
           (Entry(k) \notin {NoSock, s} /\ sock[Entry(k)].state = "open")
             => connections'[k] = Entry(k)]_vars

\* How C18 fails: two attempts for one key both connected, the command on
\* one of them timed out, and the close of that connection removed the entry
\* of the other, which stays open with no entry.
C18_ClosedByTimeoutEvictedOther ==
  \E s1, s2 \in Sockets :
    /\ s1 # s2 /\ sock[s1].key = sock[s2].key
    /\ sock[s1].state = "closed" /\ sock[s1].cause = "timeout"
    /\ sock[s2].state = "open" /\ sock[s2].cause = "none"
    /\ Entry(sock[s2].key) = NoSock

\* C19: once a command has produced its result it writes nothing more to a
\* connection and attaches no data or error listener to one.
C19_NoEffectAfterResult ==
  [][\A c \in Cmds :
       Settled(c) =>
         /\ cmd'[c].written = cmd[c].written
         /\ \A s \in Sockets :
              (c \in sock'[s].dataL \cup sock'[s].errL)
                => (c \in sock[s].dataL \cup sock[s].errL)]_vars

\* How C19 fails: a command that failed with Timeout while its connection
\* was being established has written its payload to that connection, which
\* is open, and listens on it.
C19_WrittenAfterTimeout ==
  \E c \in Cmds :
    /\ cmd[c].outcome = "timeout" /\ cmd[c].settles = 1
    /\ cmd[c].written # <<>>
    /\ sock[cmd[c].socket].state = "open"
    /\ c \in sock[cmd[c].socket].dataL \cap sock[cmd[c].socket].errL

\* ---- shutdown -------------------------------------------------------------
\* stop() awaits server.close(), which completes once every request has been
\* answered, and then calls closeAll; no request is served afterwards.  A
\* closeAll that destroys at least one connection leaves its mark on it, so
\* "closeAll has run" is the presence of that mark.
CloseAllHasRun == \E s \in Sockets : sock[s].cause = "closeAll"
AllAnswered == \A c \in Cmds : cmd[c].pc # "idle" => Settled(c)

NextStop ==
  \/ \E c \in Cmds, k \in Keys, opt \in DelimOptions :
       ~CloseAllHasRun /\ StartCached(c, k, opt)
  \/ \E c \in Cmds, k \in Keys, opt \in DelimOptions :
       ~CloseAllHasRun /\ StartConnect(c, k, opt)
  \/ \E s \in Sockets : Connected(s)
  \/ \E s \in Sockets : ConnectError(s)
  \/ \E c \in Cmds : Timeout(c)
  \/ \E s \in Sockets, chunk \in Chunks : Data(s, chunk)
  \/ \E s \in Sockets : SocketError(s)
  \/ \E s \in Sockets : PeerClose(s)
  \/ \E s \in Sockets : CloseEvent(s)
  \/ AllAnswered /\ (\E k \in Keys : Reusable(k)) /\ CloseAll

SpecStop == Init /\ [][NextStop]_vars

\* C20: once closeAll has run, with no getConnection call after it, the
\* registry is empty and no connection created by the pool is open.
C20_NothingOpenAfterCloseAll ==
  CloseAllHasRun =>
    /\ \A k \in Keys : Entry(k) = NoSock
    /\ \A s \in Sockets : sock[s].state # "open"

\* How C20 fails: an attempt that was connecting when closeAll ran has
\* connected since; it is open and holds the entry of its key.
C20_InFlightConnectSurvives ==
  /\ CloseAllHasRun
  /\ \E s \in Sockets : /\ sock[s].state = "open"
                        /\ Entry(sock[s].key) = s
                        /\ cmd[sock[s].owner].outcome = "timeout"
====
